---- MODULE Spec2Model ----
(***************************************************************************)
(* A model of zfit's HS3 serializer (zfit/serialization/serializer.py):    *)
(* the pattern matcher (elements_match), the graph normalizer              *)
(* (replace_matching, post_serialize, pre_deserialize) and the facade      *)
(* (Serializer.to_hs3, Serializer.from_hs3).                               *)
(*                                                                         *)
(* Nested Python values are tagged records, so that values of different    *)
(* Python types can be compared:                                           *)
(*   Str(s)      a str               Num(n)   an int/float                 *)
(*   Bool(b)     a bool              NoneV    None                         *)
(*   Map(f)      a dict, f a function from keys (strings) to values        *)
(*   Lst(t, l)   a list ("list") or tuple ("tuple") with elements l        *)
(***************************************************************************)
EXTENDS Integers, Sequences, FiniteSets, TLC

VARIABLES
    pc,      \* position of the driver: which call has returned last
    models,  \* the sequence of domain models handed to to_hs3
    env,     \* the caller's envelope object (to_hs3's return value)
    loaded,  \* the return value of from_hs3
    reser,   \* to_hs3 of the loaded models
    tree,    \* a nested structure handed to the pattern matcher
    tout,    \* the matcher's / normalizer's result for tree
    reg,     \* the class attributes of Serializer (the type registry)
    call,    \* the last call into the registry or the facade and how it ended
    mode     \* the mode flags (_context) of the representation classes and the
             \* from_orm / to_orm calls in progress

vars == <<pc, models, env, loaded, reser, tree, tout, reg, call, mode>>

----------------------------------------------------------------------------
(* Python values *)

Str(s) == [k |-> "str", s |-> s]
Num(n) == [k |-> "num", n |-> n]
Bool(b) == [k |-> "bool", b |-> b]
NoneV == [k |-> "none"]
Map(f) == [k |-> "map", m |-> f]
Lst(t, l) == [k |-> "seq", t |-> t, l |-> l]

IsStr(v) == v.k = "str"
IsMap(v) == v.k = "map"
IsLst(v) == v.k = "seq"
EmptyMap == Map(<<>>)

Has(v, key) == IsMap(v) /\ key \in DOMAIN v.m

\* Python's == on two values: bool is a subclass of int (True == 1), a list
\* never equals a tuple, containers compare element by element.
RECURSIVE PyEq(_, _)
PyEq(a, b) ==
    CASE a.k = "num" /\ b.k = "num" -> a.n = b.n
      [] a.k = "bool" /\ b.k = "bool" -> a.b = b.b
      [] a.k = "bool" /\ b.k = "num" -> b.n = (IF a.b THEN 1 ELSE 0)
      [] a.k = "num" /\ b.k = "bool" -> a.n = (IF b.b THEN 1 ELSE 0)
      [] a.k = "str" /\ b.k = "str" -> a.s = b.s
      [] a.k = "none" /\ b.k = "none" -> TRUE
      [] a.k = "map" /\ b.k = "map" ->
            /\ DOMAIN a.m = DOMAIN b.m
            /\ \A key \in DOMAIN a.m : PyEq(a.m[key], b.m[key])
      [] a.k = "seq" /\ b.k = "seq" ->
            /\ a.t = b.t
            /\ Len(a.l) = Len(b.l)
            /\ \A i \in 1..Len(a.l) : PyEq(a.l[i], b.l[i])
      [] OTHER -> FALSE

----------------------------------------------------------------------------
(* Replacement tables.  A table is the sequence of the items of the Python  *)
(* dict `replace`, in insertion order: each item has a key `match` and a    *)
(* value `repl`.  A key is a frozendict pattern, Pat(items) with items the  *)
(* sequence of its <<key, value>> pairs in insertion order, or a string.    *)
(* A value is one of the lambdas of the source:                             *)
(*   GuardedName   lambda x: x["name"] if "value_fn" not in x else x        *)
(*   PlainName     lambda x: x["name"]                                      *)
(*   Const(v)      lambda x=k: out["variables"][x], v the entry closed over *)

Pat(items) == [k |-> "pat", items |-> items]
IsPat(p) == p.k = "pat"

GuardedName == [f |-> "guarded"]
PlainName == [f |-> "plain"]
Const(v) == [f |-> "const", v |-> v]

Item(match, repl) == [match |-> match, repl |-> repl]

\* The dict a frozendict pattern compares equal to.
PatAsMap(p) ==
    Map([key \in {p.items[i][1] : i \in 1..Len(p.items)} |->
            (CHOOSE v \in {p.items[i][2] : i \in 1..Len(p.items)} :
                \E i \in 1..Len(p.items) : p.items[i] = <<key, v>>)])

\* x["name"] if "value_fn" not in x else x -- without the guard.
UnguardedReplacement(x) == x.m["name"]

\* The replacement that takes the type off a node it keeps.
ReplacementDropsType(x) ==
    IF "value_fn" \notin DOMAIN x.m THEN x.m["name"]
    ELSE Map([key \in DOMAIN x.m \ {"type"} |-> x.m[key]])

\* The replacement both passes of post_serialize use.
GuardedReplacement(x) == IF "value_fn" \notin DOMAIN x.m THEN x.m["name"] ELSE x

\* replacement(mapping)
ApplyRepl(repl, x) ==
    CASE repl.f = "guarded" -> GuardedReplacement(x)
      [] repl.f = "plain" -> x.m["name"]
      [] repl.f = "const" -> repl.v

----------------------------------------------------------------------------
(* elements_match *)

\* The inner loop with every declared value treated like a free field.
RECURSIVE MatchItemsAnyValue(_, _, _)
MatchItemsAnyValue(mapping, items, i) ==
    IF i > Len(items) THEN TRUE
    ELSE IF items[i][1] \notin DOMAIN mapping.m THEN FALSE
    ELSE MatchItemsAnyValue(mapping, items, i + 1)

\* for k, v in match.items(): ... else: found = True
\* TRUE iff the loop over the pattern's items, from the i-th on, ends without break.
RECURSIVE MatchItems(_, _, _)
MatchItems(mapping, items, i) ==
    IF i > Len(items) THEN TRUE
    ELSE LET key == items[i][1]
             v == items[i][2]
         IN  IF key \notin DOMAIN mapping.m THEN FALSE                \* break
             ELSE IF v = NoneV THEN MatchItems(mapping, items, i + 1) \* a "free field"
             ELSE IF PyEq(mapping.m[key], v) THEN MatchItems(mapping, items, i + 1)
             ELSE FALSE                                               \* break

\* direct_hit = mapping == match
DirectHit(mapping, match) ==
    IF IsPat(match) THEN IsMap(mapping) /\ PyEq(mapping, PatAsMap(match))
    ELSE PyEq(mapping, match)

\* One round of the loop over replace.items(): does the item stop the loop
\* with found = True?
ItemHits(mapping, item) ==
    \/ IsMap(mapping) /\ IsPat(item.match) /\ MatchItems(mapping, item.match.items, 1)
    \/ DirectHit(mapping, item.match)

\* The index of the item the loop over replace.items() breaks at, 0 when the
\* loop runs to its else clause.
RECURSIVE FirstHit(_, _, _)
FirstHit(mapping, replace, i) ==
    IF i > Len(replace) THEN 0
    ELSE IF ItemHits(mapping, replace[i]) THEN i
    ELSE FirstHit(mapping, replace, i + 1)

\* Returns (found, replacement(mapping)) as a record.
elements_match(mapping, replace) ==
    LET i == FirstHit(mapping, replace, 1)
    IN  IF i = 0 THEN [found |-> FALSE, new |-> NoneV]
        ELSE [found |-> TRUE, new |-> ApplyRepl(replace[i].repl, mapping)]

----------------------------------------------------------------------------
(* replace_matching, post_serialize, pre_deserialize *)

\* replace_matching that rewrites the children of a node before it tests
\* the node.
RECURSIVE ReplaceMatchingChildrenFirst(_, _)
ReplaceMatchingChildrenFirst(mapping, replace) ==
    LET inner == IF IsMap(mapping)
                 THEN Map([key \in DOMAIN mapping.m |->
                              ReplaceMatchingChildrenFirst(mapping.m[key], replace)])
                 ELSE IF IsLst(mapping)
                 THEN Lst(mapping.t, [i \in 1..Len(mapping.l) |->
                              ReplaceMatchingChildrenFirst(mapping.l[i], replace)])
                 ELSE mapping
        hit == elements_match(inner, replace)
    IN  IF hit.found THEN hit.new ELSE inner

\* replace_matching that gives every sequence back as a list.
RECURSIVE ReplaceMatchingAsList(_, _)
ReplaceMatchingAsList(mapping, replace) ==
    LET hit == elements_match(mapping, replace)
    IN  IF hit.found THEN hit.new
        ELSE IF IsMap(mapping)
             THEN Map([key \in DOMAIN mapping.m |-> ReplaceMatchingAsList(mapping.m[key], replace)])
        ELSE IF IsLst(mapping)
             THEN Lst("list", [i \in 1..Len(mapping.l) |-> ReplaceMatchingAsList(mapping.l[i], replace)])
        ELSE mapping

RECURSIVE replace_matching(_, _)
replace_matching(mapping, replace) ==
    LET hit == elements_match(mapping, replace)
    IN  IF hit.found THEN hit.new
        ELSE IF IsMap(mapping)
             THEN Map([key \in DOMAIN mapping.m |-> replace_matching(mapping.m[key], replace)])
        ELSE IF IsLst(mapping)
             THEN Lst(mapping.t, [i \in 1..Len(mapping.l) |-> replace_matching(mapping.l[i], replace)])
        ELSE mapping

\* frozendict({"name": None, "min": None, "max": None})
ParameterPattern == Pat(<< <<"name", NoneV>>, <<"min", NoneV>>, <<"max", NoneV>> >>)

\* frozendict({"name": None, "type": "ConstantParameter", "floating": False})
ConstParamsPattern ==
    Pat(<< <<"name", NoneV>>, <<"type", Str("ConstantParameter")>>, <<"floating", Bool(FALSE)>> >>)

ForwardTable1 == << Item(ParameterPattern, GuardedName) >>
ForwardTable2 == << Item(ConstParamsPattern, GuardedName) >>

\* post_serialize on the pdfs section; the other sections are left alone.
PostSerializePdfs(pdfs) ==
    replace_matching(replace_matching(pdfs, ForwardTable1), ForwardTable2)

post_serialize(out) == [out EXCEPT !.pdfs = PostSerializePdfs(out.pdfs)]

\* A sequence holding the elements of a finite set, each once.
RECURSIVE SetToSeq(_)
SetToSeq(S) ==
    IF S = {} THEN <<>>
    ELSE LET x == CHOOSE y \in S : TRUE IN <<x>> \o SetToSeq(S \ {x})

\* {k: lambda x=k: out["variables"][x] for k in out["variables"].keys()}
\* The keys are distinct strings, so at most one item can hit and the order
\* of the items does not show.
BackwardTable(variables) ==
    LET keys == SetToSeq(DOMAIN variables.m)
    IN  [i \in 1..Len(keys) |-> Item(Str(keys[i]), Const(variables.m[keys[i]]))]

\* pre_deserialize works on a deep copy: the result is a new value.
pre_deserialize(out) ==
    [out EXCEPT !.pdfs = replace_matching(out.pdfs, BackwardTable(out.variables))]

----------------------------------------------------------------------------
(* Domain objects.  A parameter or a space is a record with an identity     *)
(* (id); a model holds its parameters by field and its space.               *)

NoParam == <<>>

Parameter(name, lo, hi) ==
    [id |-> <<"live", name>>, kind |-> "Parameter", name |-> name, floating |-> TRUE,
     value |-> 0, lo |-> lo, hi |-> hi, fn |-> "", deps |-> NoParam]

ConstantParameter(name) ==
    [id |-> <<"live", name>>, kind |-> "ConstantParameter", name |-> name, floating |-> FALSE,
     value |-> 0, lo |-> 0, hi |-> 0, fn |-> "", deps |-> NoParam]

ComposedParameter(name, deps) ==
    [id |-> <<"live", name>>, kind |-> "ComposedParameter", name |-> name, floating |-> FALSE,
     value |-> 0, lo |-> 0, hi |-> 0, fn |-> "fn", deps |-> deps]

\* A zfit.Parameter that is held fixed (floating=False).
FixedParameter(name, lo, hi) == [Parameter(name, lo, hi) EXCEPT !.floating = FALSE]

Space(name, lo, hi) == [id |-> <<"live", "space", name>>, kind |-> "Space", name |-> name, lo |-> lo, hi |-> hi]

\* A field of a model holds one parameter or a list of parameters.
One(p) == [fk |-> "one", p |-> p]
Many(ps) == [fk |-> "many", ps |-> ps]

Model(type, name, fields, space) ==
    [type |-> type, name |-> name, fields |-> fields, space |-> space]

\* The parameters and spaces of the models that are serialized.
Pmu == Parameter("mu", -1, 1)
Psigma == Parameter("sigma", 0, 1)
Pobs == Parameter("obs", -1, 1)          \* a parameter named like the axis
Cc == ConstantParameter("c")
Comp == ComposedParameter("comp", <<Pmu>>)
ObsSpace == Space("obs", -3, 3)

ModelNames == {"Gauss", "name", "min", "max"}

\* The models: a Gauss, a Gauss whose mu is named like its axis, and a
\* polynomial whose coefficient list holds a derived parameter, a constant
\* and the parameter the derived one depends on.
ModelsNamed(name) ==
    { Model("Gauss", name, ("mu" :> One(Pmu)) @@ ("sigma" :> One(Psigma)), ObsSpace),
      Model("Gauss", name, ("mu" :> One(Pobs)) @@ ("sigma" :> One(Psigma)), ObsSpace),
      Model("Legendre", name, ("coeffs" :> Many(<<Comp, Cc, Pmu>>)), ObsSpace) }

AllModels == UNION {ModelsNamed(name) : name \in ModelNames}

MaxModels == 3

RECURSIVE SeqsUpTo(_, _)
SeqsUpTo(S, n) ==
    IF n = 0 THEN {<<>>}
    ELSE LET shorter == SeqsUpTo(S, n - 1)
         IN  shorter \cup {Append(q, x) : q \in {r \in shorter : Len(r) = n - 1}, x \in S}

\* to_hs3 is given one model or a list of one to MaxModels models.
ModelInputs(n) == [1..n -> AllModels]

----------------------------------------------------------------------------
(* Representations: repr.from_orm(obj).dict(exclude_none=True, by_alias=True) *)

\* The key of the i-th parameter a derived parameter depends on.
DepKey(i) == "param_" \o ToString(i - 1)

RECURSIVE ParamRepr(_)
RECURSIVE DepsRepr(_, _)
DepsRepr(deps, i) ==
    IF i > Len(deps) THEN <<>>
    ELSE (DepKey(i) :> ParamRepr(deps[i])) @@ DepsRepr(deps, i + 1)

ParamRepr(p) ==
    CASE p.kind = "Parameter" ->
            Map(("type" :> Str("Parameter")) @@ ("name" :> Str(p.name))
                @@ ("value" :> Num(p.value)) @@ ("min" :> Num(p.lo)) @@ ("max" :> Num(p.hi))
                @@ ("step_size" :> Num(1)) @@ ("floating" :> Bool(p.floating)))
      [] p.kind = "ConstantParameter" ->
            Map(("type" :> Str("ConstantParameter")) @@ ("name" :> Str(p.name))
                @@ ("value" :> Num(p.value)) @@ ("floating" :> Bool(FALSE)))
      [] p.kind = "ComposedParameter" ->
            Map(("type" :> Str("ComposedParameter")) @@ ("name" :> Str(p.name))
                @@ ("value_fn" :> Str(p.fn)) @@ ("params" :> Map(DepsRepr(p.deps, 1))))

SpaceRepr(sp) ==
    Map(("type" :> Str("Space")) @@ ("name" :> Str(sp.name))
        @@ ("min" :> Num(sp.lo)) @@ ("max" :> Num(sp.hi)))

FieldRepr(fv) ==
    IF fv.fk = "one" THEN ParamRepr(fv.p)
    ELSE Lst("list", [i \in 1..Len(fv.ps) |-> ParamRepr(fv.ps[i])])

\* pdf.get_repr().from_orm(pdf).dict(**serial_kwargs)
PdfRepr(pdf) ==
    Map([key \in DOMAIN pdf.fields |-> FieldRepr(pdf.fields[key])]
        @@ ("type" :> Str(pdf.type)) @@ ("name" :> Str(pdf.name))
        @@ ("x" :> SpaceRepr(pdf.space)))

\* del paramdict["type"]
DelType(d) == Map([key \in DOMAIN d.m \ {"type"} |-> d.m[key]])

\* A parameter with the parameters it depends on, itself first.
RECURSIVE WithDeps(_)
WithDeps(p) ==
    IF Len(p.deps) = 0 THEN <<p>>
    ELSE <<p>> \o WithDeps(p.deps[1])

RECURSIVE Flatten(_)
Flatten(ss) == IF Len(ss) = 0 THEN <<>> ELSE Head(ss) \o Flatten(Tail(ss))

\* pdf.get_params(floating=None, extract_independent=None): the parameters
\* of the model, floating or not, derived ones with what they depend on.
GetParams(pdf) ==
    LET keys == SetToSeq(DOMAIN pdf.fields)
        OfField(fv) == IF fv.fk = "one" THEN WithDeps(fv.p)
                       ELSE Flatten([i \in 1..Len(fv.ps) |-> WithDeps(fv.ps[i])])
    IN  Flatten([i \in 1..Len(keys) |-> OfField(pdf.fields[keys[i]])])

\* pdf.obs: the names of the axes of the model's space.
Obs(pdf) == <<pdf.space.name>>

----------------------------------------------------------------------------
(* Serializer.to_hs3 *)

ZfitVersion == "zfit.__version__"

Metadata ==
    Map(("HS3" :> Map("version" :> Str("experimental")))
        @@ ("serializer" :> Map(("lib" :> Str("zfit")) @@ ("version" :> Str(ZfitVersion)))))

EmptyEnvelope == [metadata |-> Metadata, pdfs |-> EmptyMap, variables |-> EmptyMap]

\* d[key] = v
Put(d, key, v) == Map((key :> v) @@ d.m)

\* f"{name}_{pdf_number}" with pdf_number = range(len(pdfs))
RangeSuffixed(name, n) == name \o "_range(0, " \o ToString(n) \o ")"

\* The key a model is stored under in out["pdfs"].
PdfKey(out, pdf, n) ==
    IF pdf.name \in DOMAIN out.pdfs.m THEN RangeSuffixed(pdf.name, n) ELSE pdf.name

\* for param in pdf.get_params(...): ... out["variables"][param.name] = paramdict
RECURSIVE AddParams(_, _, _)
AddParams(variables, params, i) ==
    IF i > Len(params) THEN variables
    ELSE LET param == params[i]
         IN  IF param.kind = "ComposedParameter"
             THEN AddParams(variables, params, i + 1)                    \* continue
             ELSE IF param.name \notin DOMAIN variables.m
             THEN AddParams(Put(variables, param.name, DelType(ParamRepr(param))), params, i + 1)
             ELSE AddParams(variables, params, i + 1)

\* for ob in pdf.obs: ... out["variables"][ob] = spacedict
\* (pdf.space.with_obs(ob) of a one-axis space is that space)
RECURSIVE AddObs(_, _, _, _)
AddObs(variables, pdf, obs, i) ==
    IF i > Len(obs) THEN variables
    ELSE IF obs[i] \notin DOMAIN variables.m
         THEN AddObs(Put(variables, obs[i], DelType(SpaceRepr(pdf.space))), pdf, obs, i + 1)
         ELSE AddObs(variables, pdf, obs, i + 1)

\* One round of the loop over pdfs.
ToHs3Step(out, pdf, n) ==
    LET name == PdfKey(out, pdf, n)
        withPdf == Put(out.pdfs, name, PdfRepr(pdf))
        withParams == AddParams(out.variables, GetParams(pdf), 1)
        withObs == AddObs(withParams, pdf, Obs(pdf), 1)
    IN  [out EXCEPT !.pdfs = withPdf, !.variables = withObs]

RECURSIVE ToHs3Loop(_, _, _)
ToHs3Loop(out, pdfs, i) ==
    IF i > Len(pdfs) THEN out
    ELSE ToHs3Loop(ToHs3Step(out, pdfs[i], Len(pdfs)), pdfs, i + 1)

\* to_hs3 of a sequence of serializable models.
to_hs3(pdfs) == post_serialize(ToHs3Loop(EmptyEnvelope, pdfs, 1))

----------------------------------------------------------------------------
(* Serializer.from_hs3 *)

\* The discriminator tags in Serializer.type_repr.
ParamTags == {"Parameter", "ConstantParameter", "ComposedParameter"}
PdfTags == {"Gauss", "Legendre"}
RegisteredTags == PdfTags \cup ParamTags \cup {"Space"}

\* Tag inference that does not look at the floating flag.
InferTagIgnoresFloating(paramdict) ==
    IF "value" \in DOMAIN paramdict.m THEN "Parameter"
    ELSE IF "value_fn" \in DOMAIN paramdict.m THEN "ComposedParameter"
    ELSE "Space"

\* The tag from_hs3 infers for an entry of variables.
InferTag(paramdict) ==
    IF "value" \in DOMAIN paramdict.m
    THEN IF "floating" \in DOMAIN paramdict.m /\ paramdict.m["floating"] = Bool(FALSE)
         THEN "ConstantParameter"
         ELSE "Parameter"
    ELSE IF "value_fn" \in DOMAIN paramdict.m THEN "ComposedParameter"
    ELSE "Space"

\* for param, paramdict in load["variables"].items(): paramdict["type"] = ...
\* The entries are changed in place, in the mapping the caller passed.
TagVariables(load) ==
    [load EXCEPT !.variables =
        Map([name \in DOMAIN load.variables.m |->
                Put(load.variables.m[name], "type", Str(InferTag(load.variables.m[name])))])]

IsNum(v) == v.k = "num"
IsBool(v) == v.k = "bool"

\* repr(**param) validates: the fields a parameter representation needs.
RECURSIVE ValidParam(_)
ValidParam(d) ==
    /\ IsMap(d)
    /\ Has(d, "type") /\ IsStr(d.m["type"]) /\ d.m["type"].s \in ParamTags
    /\ Has(d, "name") /\ IsStr(d.m["name"])
    /\ CASE d.m["type"].s = "Parameter" ->
                /\ Has(d, "value") /\ IsNum(d.m["value"])
                /\ Has(d, "min") => IsNum(d.m["min"])
                /\ Has(d, "max") => IsNum(d.m["max"])
                /\ Has(d, "floating") => IsBool(d.m["floating"])
         [] d.m["type"].s = "ConstantParameter" ->
                /\ Has(d, "value") /\ IsNum(d.m["value"])
         [] d.m["type"].s = "ComposedParameter" ->
                /\ Has(d, "value_fn") /\ IsStr(d.m["value_fn"])
                /\ Has(d, "params") /\ IsMap(d.m["params"])
                /\ DOMAIN d.m["params"].m = {DepKey(i) : i \in 1..Cardinality(DOMAIN d.m["params"].m)}
                /\ \A key \in DOMAIN d.m["params"].m : ValidParam(d.m["params"].m[key])

ValidSpace(d) ==
    /\ IsMap(d)
    /\ Has(d, "type") /\ d.m["type"] = Str("Space")
    /\ Has(d, "name") /\ IsStr(d.m["name"])
    /\ Has(d, "min") /\ IsNum(d.m["min"])
    /\ Has(d, "max") /\ IsNum(d.m["max"])

\* The parameter fields of a model representation: field -> one or many.
PdfSchema(tag) ==
    CASE tag = "Gauss" -> ("mu" :> "one") @@ ("sigma" :> "one")
      [] tag = "Legendre" -> ("coeffs" :> "many")

ValidPdf(d) ==
    /\ IsMap(d)
    /\ Has(d, "type") /\ IsStr(d.m["type"]) /\ d.m["type"].s \in PdfTags
    /\ Has(d, "name") /\ IsStr(d.m["name"])
    /\ Has(d, "x") /\ ValidSpace(d.m["x"])
    /\ \A key \in DOMAIN PdfSchema(d.m["type"].s) :
          /\ Has(d, key)
          /\ IF PdfSchema(d.m["type"].s)[key] = "one" THEN ValidParam(d.m[key])
             ELSE /\ IsLst(d.m[key])
                  /\ \A i \in 1..Len(d.m[key].l) : ValidParam(d.m[key].l[i])

\* repr = Serializer.type_repr[d["type"]]; repr_inst = repr(**d)
\* an entry that has no registered tag or does not validate ends the call
\* with an exception.
LoadableEntry(d) ==
    /\ IsMap(d) /\ Has(d, "type") /\ IsStr(d.m["type"]) /\ d.m["type"].s \in RegisteredTags
    /\ IF d.m["type"].s = "Space" THEN ValidSpace(d)
       ELSE IF d.m["type"].s \in ParamTags THEN ValidParam(d)
       ELSE ValidPdf(d)

\* constructor(**init): the domain type's constructor makes a new object at
\* each call; site names the call (where in the result the object is put).
Construct(init, site) == [init EXCEPT !.id = site]

\* to_orm of a parameter representation; convert_to_orm turns every nested
\* mapping that has a type into an object of its own.
RECURSIVE BuildParam(_, _)
RECURSIVE BuildDeps(_, _, _)
BuildDeps(params, site, i) ==
    IF i > Cardinality(DOMAIN params.m) THEN <<>>
    ELSE <<BuildParam(params.m[DepKey(i)], site \o <<"params", DepKey(i)>>)>>
            \o BuildDeps(params, site, i + 1)

BuildParam(d, site) ==
    LET tag == d.m["type"].s
    IN  Construct(
            [id |-> <<>>, kind |-> tag, name |-> d.m["name"].s,
             floating |-> IF tag = "Parameter"
                          THEN (IF Has(d, "floating") THEN d.m["floating"].b ELSE TRUE)
                          ELSE FALSE,
             value |-> IF Has(d, "value") THEN d.m["value"].n ELSE 0,
             lo |-> IF Has(d, "min") THEN d.m["min"].n ELSE 0,
             hi |-> IF Has(d, "max") THEN d.m["max"].n ELSE 0,
             fn |-> IF Has(d, "value_fn") THEN d.m["value_fn"].s ELSE "",
             deps |-> IF tag = "ComposedParameter" THEN BuildDeps(d.m["params"], site, 1)
                      ELSE NoParam],
            site)

BuildSpace(d, site) ==
    Construct([id |-> <<>>, kind |-> "Space", name |-> d.m["name"].s,
               lo |-> d.m["min"].n, hi |-> d.m["max"].n], site)

BuildPdf(d, site) ==
    LET tag == d.m["type"].s
    IN  Model(tag, d.m["name"].s,
              [key \in DOMAIN PdfSchema(tag) |->
                    IF PdfSchema(tag)[key] = "one"
                    THEN One(BuildParam(d.m[key], site \o <<key>>))
                    ELSE Many([i \in 1..Len(d.m[key].l) |->
                                BuildParam(d.m[key].l[i], site \o <<key, ToString(i - 1)>>)])],
              BuildSpace(d.m["x"], site \o <<"x">>))

\* repr_inst.to_orm()
BuildEntry(d, site) ==
    IF d.m["type"].s = "Space" THEN BuildSpace(d, site)
    ELSE IF d.m["type"].s \in ParamTags THEN BuildParam(d, site)
    ELSE BuildPdf(d, site)

LoadError == [status |-> "error"]

\* The mutable containers (dicts) of a nested value as objects of their own:
\* a tree of cells, each with an identity, one per mapping of the value.
RECURSIVE CellsOf(_, _)
CellsOf(v, path) ==
    [id |-> path,
     kids |-> [key \in {x \in DOMAIN v.m : IsMap(v.m[x])} |-> CellsOf(v.m[key], path \o <<key>>)]]

\* The dicts of the metadata section of the envelope the caller holds.
CallerMetadataCells(load) == CellsOf(load.metadata, <<"caller", "metadata">>)

\* No copy: the same dicts.
SameCells(cells, copy) == cells

\* copy.deepcopy: a new dict for every dict.
RECURSIVE DeepCopyCells(_, _)
DeepCopyCells(cells, copy) ==
    [id |-> <<copy>> \o cells.id,
     kids |-> [key \in DOMAIN cells.kids |-> DeepCopyCells(cells.kids[key], copy)]]

\* dict.copy(): a new dict that holds the same values.
ShallowCopyCells(cells, copy) == [cells EXCEPT !.id = <<copy>> \o cells.id]


\* from_hs3: what it returns (status "ok") or that it raised (status "error").
from_hs3(load) ==
    LET inlined == pre_deserialize(TagVariables(load))
    IN  IF /\ IsMap(inlined.pdfs)
           /\ \A name \in DOMAIN inlined.pdfs.m : LoadableEntry(inlined.pdfs.m[name])
           /\ \A name \in DOMAIN inlined.variables.m : LoadableEntry(inlined.variables.m[name])
        THEN [status |-> "ok",
              pdfs |-> [name \in DOMAIN inlined.pdfs.m |->
                            BuildEntry(inlined.pdfs.m[name], <<"pdfs", name>>)],
              variables |-> [name \in DOMAIN inlined.variables.m |->
                            BuildEntry(inlined.variables.m[name], <<"variables", name>>)],
              metadata |-> inlined.metadata,
              \* out["metadata"] = load["metadata"].copy(), load being the deep
              \* copy pre_deserialize made
              metadata_cells |-> ShallowCopyCells(
                                    DeepCopyCells(CallerMetadataCells(load), "deepcopy"), "copy")]
        ELSE LoadError

----------------------------------------------------------------------------
(* The type registry: Types, Serializer.register, Serializer.initialize.    *)
(* A representation class is a record of the domain class it represents     *)
(* (_implementation) and the default of its hs3_type field (its tag).       *)

Repr(impl, tag) == [impl |-> impl, tag |-> tag]

\* The domain classes and the interfaces each implements.
Classes == {"Gauss", "Parameter", "Space", "Data", "Constraint", "Hybrid", "Plain"}

\* issubclass(cls, ZfitSerializable)
Serializable(cls) == cls # "Plain"

\* The interfaces among ZfitPDF, ZfitParameter, ZfitData/ZfitBinnedData and
\* ZfitConstraint that the class implements.
Interfaces(cls) ==
    CASE cls \in {"Gauss", "Legendre"} -> {"pdf"}
      [] cls \in {"Parameter", "ConstantParameter", "ComposedParameter"} -> {"param"}
      [] cls = "Data" -> {"data"}
      [] cls = "Constraint" -> {"constraint"}
      [] cls = "Hybrid" -> {"pdf", "param"}
      [] OTHER -> {}

\* Types.__init__
Types ==
    [_constraint_repr |-> <<>>, _data_repr |-> <<>>, _pdf_repr |-> <<>>, _param_repr |-> <<>>,
     block_forward_refs |-> TRUE]

\* The class attributes of Serializer when the module is loaded; hs3_type is
\* the tag stamped on each domain class, rebuilt counts the calls of
\* update_forward_refs on each representation.
EmptyRegistry ==
    [types |-> Types, is_initialized |-> FALSE, constructor_repr |-> <<>>, type_repr |-> <<>>,
     hs3_type |-> <<>>, rebuilt |-> <<>>]

\* Types.register_repr with one independent test for each interface.
RegisterReprEveryCapability(types, repr) ==
    LET cls == repr.impl
        add(list, cap) == IF cap \in Interfaces(cls) THEN Append(list, repr) ELSE list
    IN  [types EXCEPT !._pdf_repr = add(@, "pdf"),
                      !._param_repr = add(@, "param"),
                      !._data_repr = add(@, "data"),
                      !._constraint_repr = add(@, "constraint")]

\* Types.register_repr
register_repr(types, repr) ==
    LET cls == repr.impl
    IN  IF "pdf" \in Interfaces(cls)
        THEN [types EXCEPT !._pdf_repr = Append(@, repr)]
        ELSE IF "param" \in Interfaces(cls)
        THEN [types EXCEPT !._param_repr = Append(@, repr)]
        ELSE IF "data" \in Interfaces(cls)
        THEN [types EXCEPT !._data_repr = Append(@, repr)]
        ELSE IF "constraint" \in Interfaces(cls)
        THEN [types EXCEPT !._constraint_repr = Append(@, repr)]
        ELSE types

\* Serializer.register that takes a class or a tag it already has again.
RegisterOverwrites(r, repr) ==
    LET cls == repr.impl
    IN  IF ~Serializable(cls) THEN [reg |-> r, status |-> "TypeError"]
        ELSE [reg |-> [r EXCEPT !.constructor_repr = (cls :> repr) @@ @,
                                !.hs3_type = (cls :> repr.tag) @@ @,
                                !.type_repr = (repr.tag :> repr) @@ @,
                                !.types = register_repr(@, repr)],
              status |-> "ok"]

\* Serializer.register: the registry after the call and how the call ended.
register(r, repr) ==
    LET cls == repr.impl
        hs3_type == repr.tag
    IN  IF ~Serializable(cls) THEN [reg |-> r, status |-> "TypeError"]
        ELSE IF cls \in DOMAIN r.constructor_repr
        THEN [reg |-> r, status |-> "ValueError"]                    \* Class already registered
        ELSE LET r1 == [r EXCEPT !.constructor_repr = (cls :> repr) @@ @,
                                 !.hs3_type = (cls :> hs3_type) @@ @]
             IN  IF hs3_type \in DOMAIN r1.type_repr
                 THEN [reg |-> r1, status |-> "ValueError"]           \* Type already registered
                 ELSE [reg |-> [r1 EXCEPT !.type_repr = (hs3_type :> repr) @@ @,
                                          !.types = register_repr(@, repr)],
                       status |-> "ok"]

\* The representations in a lookup map.
ValuesOf(f) == {f[x] : x \in DOMAIN f}

\* Serializer.initialize that does nothing.
InitializeSkipped(r) == r

\* Serializer.initialize that does not look at is_initialized.
InitializeAlways(r) ==
    [r EXCEPT !.types.block_forward_refs = FALSE,
              !.rebuilt = [x \in DOMAIN @ \cup ValuesOf(r.constructor_repr) |->
                              (IF x \in DOMAIN @ THEN @[x] ELSE 0)
                              + (IF x \in ValuesOf(r.constructor_repr) THEN 1 ELSE 0)],
              !.is_initialized = TRUE]

\* Serializer.initialize
initialize(r) ==
    IF ~r.is_initialized
    THEN [r EXCEPT !.types.block_forward_refs = FALSE,
                   !.rebuilt = [x \in DOMAIN @ \cup ValuesOf(r.constructor_repr) |->
                                   (IF x \in DOMAIN @ THEN @[x] ELSE 0)
                                   + (IF x \in ValuesOf(r.constructor_repr) THEN 1 ELSE 0)],
                   !.is_initialized = TRUE]
    ELSE r

\* The representations the library registers when its modules are loaded
\* (BaseRepr.__init_subclass__), in the order of their definition.
ImportedReprs ==
    << Repr("Space", "Space"), Repr("Parameter", "Parameter"),
       Repr("ConstantParameter", "ConstantParameter"),
       Repr("ComposedParameter", "ComposedParameter"),
       Repr("Gauss", "Gauss"), Repr("Legendre", "Legendre") >>

RECURSIVE RegisterAll(_, _, _)
RegisterAll(r, reprs, i) ==
    IF i > Len(reprs) THEN r ELSE RegisterAll(register(r, reprs[i]).reg, reprs, i + 1)

ImportedRegistry == RegisterAll(EmptyRegistry, ImportedReprs, 1)

\* No call has been made yet.
NoCall == [op |-> "none", n |-> 0]

----------------------------------------------------------------------------
(* The facade calls as a whole: what to_hs3 and from_hs3 do with their      *)
(* argument and with the registry.  The argument of to_hs3 is a mapping, a  *)
(* list of objects or one object; an object is a record with ek "pdf" (a    *)
(* ZfitPDF, serializable or not) or "other".                                *)

APdf(pdf, serializable) == [k |-> "obj", ek |-> "pdf", serializable |-> serializable, pdf |-> pdf]
NotAPdf == [k |-> "obj", ek |-> "other"]

\* "pdfs" in obj and isinstance(obj["pdfs"], Mapping) and "variables" in obj
\* and "metadata" in obj
EnvelopeLike(obj) ==
    /\ "pdfs" \in DOMAIN obj.m
    /\ IsMap(obj.m["pdfs"])
    /\ "variables" \in DOMAIN obj.m
    /\ "metadata" \in DOMAIN obj.m

\* convert_to_container(obj)
convert_to_container(obj) == IF IsLst(obj) THEN obj.l ELSE <<obj>>

\* The number of leading elements of pdfs that are serializable models.
RECURSIVE LeadingModels(_, _)
LeadingModels(pdfs, i) ==
    IF i > Len(pdfs) THEN 0
    ELSE IF pdfs[i].ek = "pdf" /\ pdfs[i].serializable THEN 1 + LeadingModels(pdfs, i + 1)
    ELSE 0

\* What a call of to_hs3 leaves behind: the registry, how the call ended
\* (status), the returned envelope (out), how many models were written into
\* an envelope when the call ended (built), and whether a representation was
\* used (used) with the registry finalized (finalized).
ToHs3Result(r, status, out, built, used) ==
    [reg |-> r, status |-> status, out |-> out, built |-> built, used |-> used,
     finalized |-> r.is_initialized /\ ~r.types.block_forward_refs]

\* to_hs3 with the type tests made on each model as the loop reaches it.
ToHs3ChecksInLoop(r, obj) ==
    LET r1 == initialize(r)
    IN  IF IsMap(obj) THEN ToHs3Result(r1, "ValueError", NoneV, 0, FALSE)
        ELSE LET pdfs == convert_to_container(obj)
                 good == LeadingModels(pdfs, 1)
             IN  IF good < Len(pdfs)
                 THEN ToHs3Result(r1, IF pdfs[good + 1].ek # "pdf" THEN "WorkInProgressError"
                                      ELSE "SerializationTypeError", NoneV, good, good > 0)
                 ELSE ToHs3Result(r1, "ok", to_hs3([i \in 1..Len(pdfs) |-> pdfs[i].pdf]),
                                  Len(pdfs), Len(pdfs) > 0)

\* to_hs3 that takes a mapping which is no envelope as a container.
ToHs3AcceptsOtherMappings(r, obj) ==
    LET r1 == initialize(r)
    IN  IF IsMap(obj) /\ EnvelopeLike(obj) THEN ToHs3Result(r1, "ValueError", NoneV, 0, FALSE)
        ELSE IF IsMap(obj) THEN ToHs3Result(r1, "ok", to_hs3(<<>>), 0, FALSE)
        ELSE LET pdfs == convert_to_container(obj)
             IN  IF \E i \in 1..Len(pdfs) : pdfs[i].ek # "pdf"
                 THEN ToHs3Result(r1, "WorkInProgressError", NoneV, 0, FALSE)
                 ELSE IF \E i \in 1..Len(pdfs) : ~pdfs[i].serializable
                 THEN ToHs3Result(r1, "SerializationTypeError", NoneV, 0, FALSE)
                 ELSE ToHs3Result(r1, "ok", to_hs3([i \in 1..Len(pdfs) |-> pdfs[i].pdf]),
                                  Len(pdfs), Len(pdfs) > 0)

\* Serializer.to_hs3(obj), the whole call.
ToHs3Call(r, obj) ==
    LET r1 == initialize(r)                                          \* cls.initialize()
    IN  IF IsMap(obj)
        THEN ToHs3Result(r1, "ValueError", NoneV, 0, FALSE)           \* both branches raise
        ELSE LET pdfs == convert_to_container(obj)
             IN  IF \E i \in 1..Len(pdfs) : pdfs[i].ek # "pdf"
                 THEN ToHs3Result(r1, "WorkInProgressError", NoneV, 0, FALSE)
                 ELSE IF \E i \in 1..Len(pdfs) : ~pdfs[i].serializable
                 THEN ToHs3Result(r1, "SerializationTypeError", NoneV, 0, FALSE)
                 ELSE ToHs3Result(r1, "ok", to_hs3([i \in 1..Len(pdfs) |-> pdfs[i].pdf]),
                                  Len(pdfs), Len(pdfs) > 0)

\* The tags from_hs3 looks up in Serializer.type_repr: those of the entries
\* of pdfs and of variables after the references are inlined.
LookedUp(section) ==
    IF IsMap(section)
    THEN {section.m[name].m["type"].s :
            name \in {x \in DOMAIN section.m : Has(section.m[x], "type") /\ IsStr(section.m[x].m["type"])}}
    ELSE {}

\* from_hs3 that does not look the tags up in the registry.
FromHs3WithoutLookup(r, load) ==
    LET r1 == initialize(r)
        res == from_hs3(load)
    IN  [reg |-> r1, status |-> res.status, out |-> res,
         used |-> FALSE,
         finalized |-> r1.is_initialized /\ ~r1.types.block_forward_refs]

\* Serializer.from_hs3(load), the whole call: the registry is finalized, the
\* representation of each entry is looked up in type_repr (KeyError when it
\* is not there) and used.  used is TRUE when some lookup succeeds.
FromHs3Call(r, load) ==
    LET r1 == initialize(r)                                          \* cls.initialize()
        inlined == pre_deserialize(TagVariables(load))
        tags == LookedUp(inlined.pdfs) \cup LookedUp(inlined.variables)
        res == IF tags \subseteq DOMAIN r1.type_repr THEN from_hs3(load) ELSE LoadError
    IN  [reg |-> r1, status |-> res.status, out |-> res,
         used |-> tags \cap DOMAIN r1.type_repr # {},
         finalized |-> r1.is_initialized /\ ~r1.types.block_forward_refs]

----------------------------------------------------------------------------
(* BaseRepr.from_orm and BaseRepr.to_orm: the mode flag _context is a class *)
(* attribute, read through the class hierarchy and written on the class the *)
(* call is made on.                                                         *)

\* The representation classes calls are made on, and the class each derives from.
ModeClasses == {"BasePDFRepr", "SumPDFRepr", "ParameterRepr"}

Parent(cls) == IF cls = "SumPDFRepr" THEN "BasePDFRepr" ELSE "BaseRepr"

\* cls._context: the class's own attribute or the one it inherits.
RECURSIVE Context(_, _)
Context(flags, cls) ==
    IF flags[cls] # "unset" THEN flags[cls] ELSE Context(flags, Parent(cls))

\* _context = pydantic.PrivateAttr(None) on BaseRepr; no other class has an
\* attribute of its own before the first call.
InitialFlags == [cls \in ModeClasses \cup {"BaseRepr"} |-> IF cls = "BaseRepr" THEN "None" ELSE "unset"]

\* No call of from_orm or to_orm is in progress and none has ended.
NoMode == [flags |-> InitialFlags, stack |-> <<>>, raising |-> FALSE, ended |-> [how |-> "none"]]

\* MODES.orm in from_orm, MODES.repr in to_orm
ModeOf(op) == IF op = "from_orm" THEN "orm" ELSE "repr"

\* old_mode = cls._context; try: cls._context = MODES...
EnterCall(m, cls, op) ==
    [m EXCEPT !.flags[cls] = ModeOf(op),
              !.stack = Append(@, [cls |-> cls, op |-> op, old_mode |-> Context(m.flags, cls)])]

\* finally: cls._context = None
FinallyResets(flags, frame) == [flags EXCEPT ![frame.cls] = "None"]

\* finally: cls._context = old_mode
Finally(flags, frame) == [flags EXCEPT ![frame.cls] = frame.old_mode]

\* The innermost call ends, by return or with the exception that is being
\* raised; ended keeps what the flag of its class was when it began and
\* what it is now.
ExitCall(m) ==
    LET frame == m.stack[Len(m.stack)]
        flags == Finally(m.flags, frame)
    IN  [m EXCEPT !.flags = flags,
                  !.stack = SubSeq(@, 1, Len(@) - 1),
                  !.ended = [how |-> IF m.raising THEN "exception" ELSE "return",
                             cls |-> frame.cls, op |-> frame.op, depth |-> Len(m.stack),
                             began |-> frame.old_mode, after |-> Context(flags, frame.cls)]]

----------------------------------------------------------------------------
(* The driver: serialize the models, load the envelope, serialize what was  *)
(* loaded.                                                                  *)

Init ==
    /\ pc = "start"
    /\ \E n \in 1..MaxModels : models \in ModelInputs(n)
    /\ env = NoneV
    /\ loaded = NoneV
    /\ reser = NoneV
    /\ tree = NoneV
    /\ tout = NoneV
    /\ reg = ImportedRegistry
    /\ call = NoCall
    /\ mode = NoMode

\* hs3json = Serializer.to_hs3(models)
ToHs3 ==
    /\ pc = "start"
    /\ env' = to_hs3(models)
    /\ pc' = "serialized"
    /\ reg' = initialize(reg)
    /\ UNCHANGED <<models, loaded, reser, tree, tout, call, mode>>

\* loaded = Serializer.from_hs3(hs3json); the tags are stamped into hs3json
\* before anything can fail.
FromHs3 ==
    /\ pc = "serialized"
    /\ loaded' = from_hs3(env)
    /\ env' = TagVariables(env)
    /\ pc' = IF loaded'.status = "ok" THEN "loaded" ELSE "load_failed"
    /\ reg' = initialize(reg)
    /\ UNCHANGED <<models, reser, tree, tout, call, mode>>

\* The keys of out["pdfs"] in the order the loop of to_hs3 inserts them.
RECURSIVE KeyOrder(_, _, _, _)
KeyOrder(out, keys, pdfs, i) ==
    IF i > Len(pdfs) THEN keys
    ELSE LET key == PdfKey(out, pdfs[i], Len(pdfs))
         IN  KeyOrder(ToHs3Step(out, pdfs[i], Len(pdfs)),
                      IF \E j \in 1..Len(keys) : keys[j] = key THEN keys ELSE Append(keys, key),
                      pdfs, i + 1)

\* list(loaded["pdfs"].values())
LoadedPdfs ==
    LET keys == KeyOrder(EmptyEnvelope, <<>>, models, 1)
    IN  [i \in 1..Len(keys) |-> loaded.pdfs[keys[i]]]

\* Serializer.to_hs3(list(loaded["pdfs"].values()))
ReSerialize ==
    /\ pc = "loaded"
    /\ reser' = to_hs3(LoadedPdfs)
    /\ pc' = "reserialized"
    /\ reg' = initialize(reg)
    /\ UNCHANGED <<models, env, loaded, tree, tout, call, mode>>

Next == ToHs3 \/ FromHs3 \/ ReSerialize

Spec == Init /\ [][Next]_vars

----------------------------------------------------------------------------
(* The matcher and the normalizer on nested structures: the structures are  *)
(* built from parameter-like mappings over the keys the patterns of         *)
(* post_serialize read, each key present or absent.                         *)

CandKeys == {"name", "min", "max", "type", "floating", "value_fn", "step_size"}

CandValues(key) ==
    CASE key = "name" -> {Str("mu"), Str("Gauss")}
      [] key = "min" -> {Num(-1)}
      [] key = "max" -> {Num(1)}
      [] key = "type" -> {Str("Parameter"), Str("ConstantParameter")}
      [] key = "floating" -> {Bool(TRUE), Bool(FALSE), Num(0)}
      [] key = "value_fn" -> {Str("fn")}
      [] key = "step_size" -> {Num(1)}

RECURSIVE FunctionsOver(_)
FunctionsOver(S) ==
    IF S = {} THEN {<<>>}
    ELSE LET key == CHOOSE x \in S : TRUE
         IN  {(key :> v) @@ f : v \in CandValues(key), f \in FunctionsOver(S \ {key})}

Cands == UNION {{Map(f) : f \in FunctionsOver(S)} : S \in SUBSET CandKeys}

\* The mappings used inside larger structures: bounds both or none, no step_size.
SmallCands ==
    {c \in Cands : /\ ("min" \in DOMAIN c.m) = ("max" \in DOMAIN c.m)
                   /\ "step_size" \notin DOMAIN c.m
                   /\ ("floating" \in DOMAIN c.m => c.m["floating"] = Bool(FALSE))}

\* The mappings used inside lists: named, and typed as a constant or not at all.
ListCands ==
    {c \in SmallCands : /\ "name" \in DOMAIN c.m
                        /\ ("type" \in DOMAIN c.m => c.m["type"] = Str("ConstantParameter"))}

\* The longest list of a structure.
MaxList == 1

\* A pdfs section with one model holding c1 in a field and cs in a list.
PdfsOf(c1, cs) ==
    Map("Gauss" :> Map("type" :> Str("Gauss") @@ "mu" :> c1
                       @@ "coeffs" :> Lst("list", cs)))

\* c1 with c2 nested in it, as the params of a derived parameter are.
NestedIn(c1, c2) == Map(c1.m @@ ("params" :> Map("p0" :> c2)))

\* tree is one of the structures the matcher and the normalizer are run on.
IsTree(t) ==
    \/ t \in Cands
    \/ \E c1 \in ListCands, cs \in SeqsUpTo(ListCands, MaxList) : t = PdfsOf(c1, cs)
    \/ \E c1 \in SmallCands, c2 \in SmallCands :
          t = Map("Gauss" :> Map("type" :> Str("Gauss") @@ "mu" :> NestedIn(c1, c2)))

\* The tables elements_match is tried with.
MatchTables ==
    { ForwardTable1, ForwardTable2,
      << Item(ParameterPattern, GuardedName), Item(ConstParamsPattern, GuardedName) >>,
      << Item(ConstParamsPattern, GuardedName), Item(ParameterPattern, GuardedName) >> }

\* replace_forward of test_replace_matching.
TestForwardTable == << Item(ParameterPattern, PlainName) >>

\* All nodes of a structure (the structure itself and everything nested in it).
RECURSIVE Nodes(_)
Nodes(v) ==
    {v} \cup
    (IF IsMap(v) THEN UNION {Nodes(v.m[key]) : key \in DOMAIN v.m}
     ELSE IF IsLst(v) THEN UNION {Nodes(v.l[i]) : i \in 1..Len(v.l)}
     ELSE {})

\* The variables section that describes the mappings of a structure which
\* the name/min/max pattern collapses: name -> mapping.
CollapsibleNodes(v) ==
    {n \in Nodes(v) : IsMap(n) /\ MatchItems(n, ParameterPattern.items, 1) /\ IsStr(n.m["name"])}

TreeVariables(v) ==
    Map([name \in {n.m["name"].s : n \in CollapsibleNodes(v)} |->
            CHOOSE n \in CollapsibleNodes(v) : n.m["name"].s = name])

MInit ==
    /\ pc = "t_start"
    /\ IsTree(tree)
    /\ tout = NoneV
    /\ models = <<>>
    /\ env = NoneV
    /\ loaded = NoneV
    /\ reser = NoneV
    /\ reg = ImportedRegistry
    /\ call = NoCall
    /\ mode = NoMode

\* elements_match(tree, table)
MatchOne ==
    /\ pc = "t_start"
    /\ \E table \in MatchTables :
          tout' = [table |-> table, res |-> elements_match(tree, table)]
    /\ pc' = "matched"
    /\ UNCHANGED <<models, env, loaded, reser, tree, reg, call, mode>>

\* post_serialize on a pdfs section: the result of the first pass and of both.
Forward ==
    /\ pc = "t_start"
    /\ tout' = [p1 |-> replace_matching(tree, ForwardTable1),
                p2 |-> PostSerializePdfs(tree)]
    /\ pc' = "forward"
    /\ UNCHANGED <<models, env, loaded, reser, tree, reg, call, mode>>

\* The forward replacement of test_replace_matching ...
Collapse ==
    /\ pc = "t_start"
    /\ tout' = replace_matching(tree, TestForwardTable)
    /\ pc' = "collapsed"
    /\ UNCHANGED <<models, env, loaded, reser, tree, reg, call, mode>>

\* ... followed by its backward replacement.
Restore ==
    /\ pc = "collapsed"
    /\ tout' = replace_matching(tout, BackwardTable(TreeVariables(tree)))
    /\ pc' = "restored"
    /\ UNCHANGED <<models, env, loaded, reser, tree, reg, call, mode>>

MNext == MatchOne \/ Forward \/ Collapse \/ Restore

SpecMatch == MInit /\ [][MNext]_vars

----------------------------------------------------------------------------
(* Claims about the matcher and the normalizer, checked under SpecMatch. *)

\* The keys a pattern declares.
DeclaredKeys(p) == {p.items[i][1] : i \in 1..Len(p.items)}

\* The pattern accepts the candidate mapping: every declared key is present
\* and every declared value is the wildcard or equal to the candidate's.
PatternAccepts(c, p) ==
    \A i \in 1..Len(p.items) :
        /\ p.items[i][1] \in DOMAIN c.m
        /\ \/ p.items[i][2] = NoneV
           \/ PyEq(c.m[p.items[i][1]], p.items[i][2])

Without(c, key) == Map([x \in DOMAIN c.m \ {key} |-> c.m[x]])

\* C6: elements_match finds a match for a candidate mapping exactly when some
\* pattern of the table accepts it (all declared keys present, all declared
\* non-wildcard values equal), and dropping a key that no pattern declares
\* from the candidate does not change the answer.
C6_ElementsMatchIsPartialMatch ==
    (pc = "matched" /\ IsMap(tree)) =>
        /\ tout.res.found =
              (\E i \in 1..Len(tout.table) : PatternAccepts(tree, tout.table[i].match))
        /\ \A key \in DOMAIN tree.m :
              (\A i \in 1..Len(tout.table) : key \notin DeclaredKeys(tout.table[i].match))
                  => elements_match(Without(tree, key), tout.table).found = tout.res.found
        /\ \A i \in 1..Len(tout.table) :
              (\E key \in DeclaredKeys(tout.table[i].match) : key \notin DOMAIN tree.m)
                  => ~ItemHits(tree, tout.table[i])

\* A candidate with an undeclared key (step_size) and without a declared key
\* of one pattern (type) is matched by the name/min/max pattern.
C6_Witness ==
    /\ pc = "matched"
    /\ IsMap(tree)
    /\ tout.table = ForwardTable1
    /\ tout.res.found
    /\ "step_size" \in DOMAIN tree.m
    /\ "type" \notin DOMAIN tree.m

\* Where the input holds a mapping with a value_fn field, the output holds no
\* string; compared position by position as far as the shapes agree.
RECURSIVE GuardKept(_, _)
GuardKept(in, out) ==
    /\ Has(in, "value_fn") => ~IsStr(out)
    /\ (IsMap(in) /\ IsMap(out) /\ DOMAIN in.m = DOMAIN out.m)
          => \A key \in DOMAIN in.m : GuardKept(in.m[key], out.m[key])
    /\ (IsLst(in) /\ IsLst(out) /\ Len(in.l) = Len(out.l))
          => \A i \in 1..Len(in.l) : GuardKept(in.l[i], out.l[i])

\* C10: no pass of post_serialize puts a bare name string where a mapping
\* with a value_fn field was, also when the mapping matches the name/min/max
\* pattern or the constant-parameter pattern.
C10_DerivedParameterGuard ==
    pc = "forward" =>
        /\ GuardKept(tree, tout.p1)
        /\ GuardKept(tout.p1, tout.p2)
        /\ GuardKept(tree, tout.p2)

\* A structure with a value_fn mapping that matches both patterns went
\* through both passes and is still there.
C10_Witness ==
    /\ pc = "forward"
    /\ \E n \in Nodes(tree) :
          /\ Has(n, "value_fn")
          /\ MatchItems(n, ParameterPattern.items, 1)
          /\ MatchItems(n, ConstParamsPattern.items, 1)
          /\ n \in Nodes(tout.p2)
    /\ \E n \in Nodes(tree) : IsMap(n) /\ n \notin Nodes(tout.p2)

\* Every mapping of the structure that carries a name of the variables
\* section equals the entry of that name.
InlinedEqualVariables(v) ==
    \A n \in Nodes(v) :
        (IsMap(n) /\ "name" \in DOMAIN n.m /\ IsStr(n.m["name"])
            /\ n.m["name"].s \in DOMAIN TreeVariables(v).m)
        => n = TreeVariables(v).m[n.m["name"].s]

\* C5: forward replacement (name/min/max mapping -> name) followed by the
\* backward replacement (variable name -> variables entry) gives back the
\* original structure, when every inlined mapping equals its variables entry.
C5_ForwardBackwardSymmetry ==
    (pc = "restored" /\ InlinedEqualVariables(tree)) => tout = tree

----------------------------------------------------------------------------
(* Claims about to_hs3 and from_hs3, checked under Spec. *)

\* What can be observed of a model: its display form and structure, without
\* the identities of the objects.
Observable(pdf) == PdfRepr(pdf)

\* C1: for a single model m, from_hs3(to_hs3(m))["pdfs"] holds exactly one
\* reconstructed model and it is observably equal to m.
C1_RoundTrip ==
    (Len(models) = 1 /\ pc \in {"loaded", "load_failed"}) =>
        /\ loaded.status = "ok"
        /\ Cardinality(DOMAIN loaded.pdfs) = 1
        /\ \A key \in DOMAIN loaded.pdfs : Observable(loaded.pdfs[key]) = Observable(models[1])

\* C2: serializing a model, loading it back and serializing the loaded model
\* gives the format of the first serialization.
C2_StableReserialization ==
    Len(models) = 1 =>
        /\ pc # "load_failed"
        /\ pc = "reserialized" => reser = to_hs3(models)

\* The places of the input models that hold a parameter: the fields, the
\* elements of list fields and the parameters derived parameters depend on.
RECURSIVE DepSites(_, _)
DepSites(p, site) ==
    {[site |-> site, p |-> p]}
    \cup UNION {DepSites(p.deps[j], site \o <<DepKey(j)>>) : j \in 1..Len(p.deps)}

FieldSites(fv, site) ==
    IF fv.fk = "one" THEN DepSites(fv.p, site)
    ELSE UNION {DepSites(fv.ps[j], site \o <<ToString(j - 1)>>) : j \in 1..Len(fv.ps)}

ModelSites(pdfs) ==
    UNION {UNION {FieldSites(pdfs[i].fields[key], <<ToString(i - 1), key>>) :
                    key \in DOMAIN pdfs[i].fields} : i \in 1..Len(pdfs)}

\* An inlined mapping of the parameter is left somewhere in the structure.
InlinedIn(p, v) ==
    \E n \in Nodes(v) :
        /\ IsMap(n)
        /\ Has(n, "name") /\ n.m["name"] = Str(p.name)
        /\ Has(n, "type") /\ n.m["type"] = Str(p.kind)

\* C3: a parameter object that two places of the models reference has one
\* entry in variables, and pdfs holds its bare name wherever it occurs, no
\* inlined mapping of it.
C3_Deduplication ==
    pc = "serialized" =>
        \A r1 \in ModelSites(models), r2 \in ModelSites(models) :
            (r1.site # r2.site /\ r1.p.id = r2.p.id) =>
                /\ r1.p.name \in DOMAIN env.variables.m
                /\ env.variables.m[r1.p.name] = DelType(ParamRepr(r1.p))
                /\ ~InlinedIn(r1.p, env.pdfs)

\* The parameters and spaces inside the loaded models.
RECURSIVE ParamObjects(_)
ParamObjects(p) == {p} \cup UNION {ParamObjects(p.deps[j]) : j \in 1..Len(p.deps)}

ObjectsOf(pdf) ==
    {pdf.space}
    \cup UNION {IF pdf.fields[key].fk = "one" THEN ParamObjects(pdf.fields[key].p)
                ELSE UNION {ParamObjects(pdf.fields[key].ps[j]) : j \in 1..Len(pdf.fields[key].ps)} :
                    key \in DOMAIN pdf.fields}

C7_UniquePdfKeys ==
    pc = "serialized" => (IsMap(env.pdfs) /\ Cardinality(DOMAIN env.pdfs.m) = Len(models))

\* Where the forward pass put a string in place of a mapping, the string is
\* a key of variables and the entry is the mapping without its type.
RECURSIVE Resolves(_, _, _)
Resolves(raw, out, variables) ==
    IF IsMap(raw) /\ IsStr(out)
    THEN out.s \in DOMAIN variables.m /\ variables.m[out.s] = DelType(raw)
    ELSE /\ (IsMap(raw) /\ IsMap(out) /\ DOMAIN raw.m = DOMAIN out.m)
                => \A key \in DOMAIN raw.m : Resolves(raw.m[key], out.m[key], variables)
         /\ (IsLst(raw) /\ IsLst(out) /\ Len(raw.l) = Len(out.l))
                => \A i \in 1..Len(raw.l) : Resolves(raw.l[i], out.l[i], variables)

\* C8: every bare name the forward pass put inside pdfs is a key of
\* variables whose entry describes the object that was collapsed.
C8_ReferencesResolve ==
    pc = "serialized" =>
        Resolves(ToHs3Loop(EmptyEnvelope, models, 1).pdfs, env.pdfs, env.variables)

IsLeaf(v) == v.k \in {"str", "num", "bool"}

\* C9: the envelope has the three sections, the metadata of the serializer,
\* a tagged representation mapping under every key of pdfs and untagged,
\* fully inlined mappings in variables.
C9_EnvelopeShape ==
    pc = "serialized" =>
        /\ DOMAIN env = {"metadata", "pdfs", "variables"}
        /\ env.metadata.m["HS3"].m["version"] = Str("experimental")
        /\ env.metadata.m["serializer"].m["lib"] = Str("zfit")
        /\ env.metadata.m["serializer"].m["version"] = Str(ZfitVersion)
        /\ IsMap(env.pdfs)
        /\ \A key \in DOMAIN env.pdfs.m :
              /\ IsMap(env.pdfs.m[key])
              /\ Has(env.pdfs.m[key], "type")
              /\ IsStr(env.pdfs.m[key].m["type"])
              /\ env.pdfs.m[key].m["type"].s \in PdfTags
        /\ IsMap(env.variables)
        /\ \A name \in DOMAIN env.variables.m :
              /\ IsMap(env.variables.m[name])
              /\ "type" \notin DOMAIN env.variables.m[name].m
              /\ \A key \in DOMAIN env.variables.m[name].m : IsLeaf(env.variables.m[name].m[key])

----------------------------------------------------------------------------
(* The registry from the start of the process: representation classes are   *)
(* registered as they are defined, the registry is finalized, the facade is *)
(* called, in any order.                                                    *)

Tags == {"Gauss", "Parameter"}

\* The representation classes that get defined.
Reprs == {Repr(cls, tag) : cls \in Classes, tag \in Tags}

\* The most calls of register in a run.
MaxRegisters == 3

RInit ==
    /\ pc = "r_idle"
    /\ reg = EmptyRegistry
    /\ call = NoCall
    /\ mode = NoMode
    /\ models = <<>>
    /\ env = NoneV
    /\ loaded = NoneV
    /\ reser = NoneV
    /\ tree = NoneV
    /\ tout = NoneV

\* Serializer.register(repr)
Register ==
    /\ call.n < MaxRegisters
    /\ \E repr \in Reprs :
          LET res == register(reg, repr)
          IN  /\ reg' = res.reg
              /\ call' = [op |-> "register", n |-> call.n + 1, repr |-> repr,
                          status |-> res.status, before |-> reg]
    /\ UNCHANGED <<pc, models, env, loaded, reser, tree, tout, mode>>

\* Serializer.initialize()
Initialize ==
    /\ reg' = initialize(reg)
    /\ call' = [op |-> "initialize", n |-> call.n, status |-> "ok", before |-> reg]
    /\ UNCHANGED <<pc, models, env, loaded, reser, tree, tout, mode>>

RNext == Register \/ Initialize

SpecReg == RInit /\ [][RNext]_vars

----------------------------------------------------------------------------
(* Claims about the registry, checked under SpecReg. *)

\* C11: a register call for a serializable domain class fails with the
\* duplicate error when the class already has a representation, and when
\* the tag is already taken by another representation; the calls that fail
\* so are no others.
C11_RegisterRejectsDuplicates ==
    (call.op = "register" /\ Serializable(call.repr.impl)) =>
        (call.status = "ValueError") =
            (\/ call.repr.impl \in DOMAIN call.before.constructor_repr
             \/ call.repr.tag \in DOMAIN call.before.type_repr)

\* A representation of a new class whose tag another representation holds
\* was refused.
C11_Witness ==
    /\ call.op = "register"
    /\ call.status = "ValueError"
    /\ call.repr.impl \notin DOMAIN call.before.constructor_repr
    /\ call.repr.tag \in DOMAIN call.before.type_repr
    /\ call.before.type_repr[call.repr.tag] # call.repr

\* The representations present in either lookup map.
Registered(r) == ValuesOf(r.constructor_repr) \cup ValuesOf(r.type_repr)

\* C12: whatever register calls were made, no two registered
\* representations have the same tag, no domain class has two, and the two
\* lookup maps hold the same representations.
C12_RegistryInvariant ==
    /\ \A r1 \in Registered(reg), r2 \in Registered(reg) :
          (r1.tag = r2.tag \/ r1.impl = r2.impl) => r1 = r2
    /\ ValuesOf(reg.constructor_repr) = ValuesOf(reg.type_repr)

\* C17: the first initialize call unblocks the forward references and
\* rebuilds every registered representation once; a later call leaves the
\* registry as it was, and no representation is ever rebuilt twice.
C17_InitializeIdempotent ==
    /\ call.op = "initialize" =>
          IF call.before.is_initialized THEN reg = call.before
          ELSE /\ reg.is_initialized
               /\ ~reg.types.block_forward_refs
               /\ \A r \in ValuesOf(call.before.constructor_repr) : reg.rebuilt[r] = 1
    /\ \A r \in DOMAIN reg.rebuilt : reg.rebuilt[r] <= 1
    /\ reg.is_initialized => ~reg.types.block_forward_refs

\* initialize was called on a finalized registry that holds a representation
\* registered after the first call.
C17_Witness ==
    /\ call.op = "initialize"
    /\ call.before.is_initialized
    /\ \E r \in ValuesOf(reg.constructor_repr) : r \notin DOMAIN reg.rebuilt
    /\ \E r \in ValuesOf(reg.constructor_repr) : r \in DOMAIN reg.rebuilt

----------------------------------------------------------------------------
(* The facade after the library is loaded: its representations are          *)
(* registered and nothing is finalized yet; the caller calls to_hs3 and     *)
(* from_hs3 with arguments of every kind and defines representations of its *)
(* own.                                                                     *)

\* The most elements of a list handed to to_hs3.
MaxItems == 2

GaussModel == Model("Gauss", "Gauss", ("mu" :> One(Pmu)) @@ ("sigma" :> One(Psigma)), ObsSpace)
LegendreModel == Model("Legendre", "Legendre", ("coeffs" :> Many(<<Comp, Cc, Pmu>>)), ObsSpace)

\* The objects a caller puts into the argument of to_hs3.
Objects == {APdf(GaussModel, TRUE), APdf(LegendreModel, FALSE), NotAPdf}

\* The mappings a caller hands to to_hs3: an envelope, mappings that lack a
\* section or hold pdfs that is no mapping, the empty mapping.
MappingArguments ==
    LET e == to_hs3(<<GaussModel>>)
        full == Map(("pdfs" :> e.pdfs) @@ ("variables" :> e.variables) @@ ("metadata" :> e.metadata))
    IN  { full,
          Map(("pdfs" :> e.pdfs) @@ ("variables" :> e.variables)),
          Map(("pdfs" :> Str("Gauss")) @@ ("variables" :> e.variables) @@ ("metadata" :> e.metadata)),
          Map("mu" :> Num(1)),
          EmptyMap }

\* The envelopes a caller hands to from_hs3.
LoadArguments == {to_hs3(<<GaussModel>>), to_hs3(<<GaussModel, LegendreModel>>)}

FInit ==
    /\ pc = "f_idle"
    /\ reg = ImportedRegistry
    /\ call = NoCall
    /\ mode = NoMode
    /\ models = <<>>
    /\ env = NoneV
    /\ loaded = NoneV
    /\ reser = NoneV
    /\ tree = NoneV
    /\ tout = NoneV

\* Serializer.to_hs3(obj)
CallToHs3 ==
    /\ \E obj \in Objects \cup MappingArguments
                 \cup UNION {{Lst("list", items) : items \in [1..n -> Objects]} : n \in 1..MaxItems} :
          LET res == ToHs3Call(reg, obj)
          IN  /\ reg' = res.reg
              /\ call' = [op |-> "to_hs3", n |-> call.n, arg |-> obj, status |-> res.status,
                          out |-> res.out, built |-> res.built, used |-> res.used,
                          finalized |-> res.finalized, before |-> reg]
    /\ UNCHANGED <<pc, models, env, loaded, reser, tree, tout, mode>>

\* Serializer.from_hs3(load)
CallFromHs3 ==
    /\ \E load \in LoadArguments :
          LET res == FromHs3Call(reg, load)
          IN  /\ reg' = res.reg
              /\ call' = [op |-> "from_hs3", n |-> call.n, arg |-> load, status |-> res.status,
                          out |-> res.out, built |-> 0, used |-> res.used,
                          finalized |-> res.finalized, before |-> reg]
    /\ UNCHANGED <<pc, models, env, loaded, reser, tree, tout, mode>>

\* The representation classes a caller defines after the library is loaded:
\* one for a new class with a new tag, one for a new class with a tag that
\* is taken.
LateReprs == {Repr("Data", "Data"), Repr("Hybrid", "Gauss")}

\* Serializer.register(repr) when the caller's class is defined (a class is
\* defined once)
RegisterLate ==
    /\ \E repr \in {x \in LateReprs : x.impl \notin DOMAIN reg.constructor_repr} :
          LET res == register(reg, repr)
          IN  /\ reg' = res.reg
              /\ call' = [op |-> "register", n |-> call.n + 1, repr |-> repr,
                          status |-> res.status, before |-> reg]
    /\ UNCHANGED <<pc, models, env, loaded, reser, tree, tout, mode>>

FNext == CallToHs3 \/ CallFromHs3 \/ RegisterLate \/ Initialize

SpecFacade == FInit /\ [][FNext]_vars

----------------------------------------------------------------------------
(* Claims about the facade calls, checked under SpecFacade. *)

\* C13: to_hs3 called with a mapping ends with an error and returns no
\* envelope, whether the mapping looks like an envelope or not.
C13_ToHs3RejectsMappings ==
    (call.op = "to_hs3" /\ IsMap(call.arg)) =>
        /\ call.status = "ValueError"
        /\ call.out = NoneV

\* A mapping that is no envelope was rejected.
C13_Witness ==
    /\ call.op = "to_hs3"
    /\ IsMap(call.arg)
    /\ ~EnvelopeLike(call.arg)
    /\ call.status = "ValueError"

\* The argument holds, somewhere, an object that is not a serializable model.
HasUnsupported(obj) ==
    /\ ~IsMap(obj)
    /\ \E i \in 1..Len(convert_to_container(obj)) :
          \/ convert_to_container(obj)[i].ek # "pdf"
          \/ ~convert_to_container(obj)[i].serializable

\* C14: to_hs3 ends with the type error when an element of its argument, at
\* whatever position, is no serializable model; it returns no envelope and
\* no model was written into an envelope before the call failed.
C14_ToHs3RejectsUnsupported ==
    (call.op = "to_hs3" /\ HasUnsupported(call.arg)) =>
        /\ call.status \in {"WorkInProgressError", "SerializationTypeError"}
        /\ call.out = NoneV
        /\ call.built = 0
        /\ ~call.used

\* A list whose first element is a model and whose second is not was rejected.
C14_Witness ==
    /\ call.op = "to_hs3"
    /\ IsLst(call.arg)
    /\ Len(call.arg.l) = 2
    /\ call.arg.l[1] = APdf(GaussModel, TRUE)
    /\ call.arg.l[2] = APdf(LegendreModel, FALSE)
    /\ call.status # "ok"

\* C16: a call of to_hs3 or from_hs3 that uses a representation uses it with
\* the registry finalized (is_initialized set, forward references no longer
\* blocked), also when it is the first call of the process; after every
\* call of either the registry is finalized.
C16_FinalizedBeforeUse ==
    call.op \in {"to_hs3", "from_hs3"} =>
        /\ call.used => call.finalized
        /\ reg.is_initialized /\ ~reg.types.block_forward_refs

\* The first call of the process used a representation.
C16_Witness ==
    /\ call.op \in {"to_hs3", "from_hs3"}
    /\ call.used
    /\ ~call.before.is_initialized
    /\ call.before.types.block_forward_refs

----------------------------------------------------------------------------
(* Nested from_orm and to_orm calls: a call begins inside the innermost     *)
(* call in progress, the innermost call returns, something raises inside    *)
(* it, the exception leaves it or is caught around it.                      *)

\* The deepest nesting of from_orm / to_orm calls.
MaxDepth == 3

OInit ==
    /\ pc = "o_idle"
    /\ mode = NoMode
    /\ reg = ImportedRegistry
    /\ call = NoCall
    /\ models = <<>>
    /\ env = NoneV
    /\ loaded = NoneV
    /\ reser = NoneV
    /\ tree = NoneV
    /\ tout = NoneV

\* cls.from_orm(obj) or repr.to_orm() begins.
BeginOrm ==
    /\ ~mode.raising
    /\ Len(mode.stack) < MaxDepth
    /\ \E cls \in ModeClasses, op \in {"from_orm", "to_orm"} : mode' = EnterCall(mode, cls, op)
    /\ UNCHANGED <<pc, models, env, loaded, reser, tree, tout, reg, call>>

\* An exception is raised inside the innermost call (a validator fails, no
\* implementation is registered, the constructor rejects its arguments).
RaiseInside ==
    /\ ~mode.raising
    /\ Len(mode.stack) > 0
    /\ mode' = [mode EXCEPT !.raising = TRUE]
    /\ UNCHANGED <<pc, models, env, loaded, reser, tree, tout, reg, call>>

\* The innermost call ends: it returns, or the exception leaves it.
EndOrm ==
    /\ Len(mode.stack) > 0
    /\ mode' = ExitCall(mode)
    /\ UNCHANGED <<pc, models, env, loaded, reser, tree, tout, reg, call>>

\* The exception is caught by the code around the call it has left.
CatchOutside ==
    /\ mode.raising
    /\ mode.ended.how = "exception"
    /\ mode' = [mode EXCEPT !.raising = FALSE]
    /\ UNCHANGED <<pc, models, env, loaded, reser, tree, tout, reg, call>>

ONext == BeginOrm \/ RaiseInside \/ EndOrm \/ CatchOutside

SpecMode == OInit /\ [][ONext]_vars

\* C15: when a from_orm or to_orm call ends, by return or by an exception,
\* nested or not, the mode flag of its class is what it was when the call
\* began.
C15_ModeFlagRestored ==
    mode.ended.how # "none" => mode.ended.after = mode.ended.began

\* A to_orm call nested in a from_orm call of the same class hierarchy ended
\* with an exception, and the flag is back to orm.
C15_Witness ==
    /\ mode.ended.how = "exception"
    /\ mode.ended.op = "to_orm"
    /\ mode.ended.depth > 1
    /\ mode.ended.began = "orm"
    /\ mode.ended.after = "orm"

----------------------------------------------------------------------------
(* from_hs3 on the envelopes a caller can hold: what to_hs3 returned, as it  *)
(* is or with the tag of an entry set, changed or removed; the library's    *)
(* representations are registered up to some point.                         *)

\* The envelope with the "type" of an entry set to tag, or removed (tag "").
SetTag(e, section, name, tag) ==
    LET entry == e[section].m[name]
        edited == IF tag = "" THEN DelType(entry) ELSE Put(entry, "type", Str(tag))
    IN  [e EXCEPT ![section] = Put(e[section], name, edited)]

\* The single changes to an envelope.
TagEdits(e) ==
    {[section |-> section, name |-> name, tag |-> tag] :
        section \in {"pdfs", "variables"},
        name \in DOMAIN e.pdfs.m \cup DOMAIN e.variables.m,
        tag \in {"", "Bogus", "Parameter", "Space"}}

Applicable(e, ed) == ed.name \in DOMAIN e[ed.section].m

\* The most changes made to an envelope.
MaxEdits == 1

RECURSIVE EditedUpTo(_, _)
EditedUpTo(e, n) ==
    IF n = 0 THEN {e}
    ELSE LET fewer == EditedUpTo(e, n - 1)
         IN  fewer \cup {SetTag(x, ed.section, ed.name, ed.tag) :
                            x \in fewer, ed \in {d \in TagEdits(e) : Applicable(e, d)}}

\* The registry when only the first k representations of the library are defined.
RegistryUpTo(k) == RegisterAll(EmptyRegistry, SubSeq(ImportedReprs, 1, k), 1)

\* The shapes a variables entry can be given: no floating flag, the flag
\* False, the flag 0, a value function in place of the value, neither.
Shapes == {"no_floating", "fixed", "floating_zero", "value_fn", "bare"}

Reshape(entry, shape) ==
    LET without(keys) == Map([key \in DOMAIN entry.m \ keys |-> entry.m[key]])
    IN  CASE shape = "no_floating" -> without({"floating"})
          [] shape = "fixed" -> Put(entry, "floating", Bool(FALSE))
          [] shape = "floating_zero" -> Put(entry, "floating", Num(0))
          [] shape = "value_fn" -> Put(without({"value"}), "value_fn", Str("fn"))
          [] shape = "bare" -> without({"value", "value_fn"})

\* The envelope with one variables entry given another shape.
Reshaped(e) ==
    {[e EXCEPT !.variables = Put(e.variables, name, Reshape(e.variables.m[name], shape))] :
        name \in DOMAIN e.variables.m, shape \in Shapes}

LInit ==
    /\ pc = "l_start"
    /\ \E e \in LoadArguments :
          \/ env \in EditedUpTo(e, MaxEdits)
          \/ env \in Reshaped(e)
    /\ \E k \in 0..Len(ImportedReprs) : reg = RegistryUpTo(k)
    /\ tree = env
    /\ call = NoCall
    /\ mode = NoMode
    /\ models = <<>>
    /\ loaded = NoneV
    /\ reser = NoneV
    /\ tout = NoneV

\* loaded = Serializer.from_hs3(env); tree keeps the envelope as the caller
\* passed it, env is the caller's envelope after the call.
Load ==
    /\ pc = "l_start"
    /\ LET res == FromHs3Call(reg, env)
       IN  /\ loaded' = res.out
           /\ reg' = res.reg
           /\ pc' = IF res.status = "ok" THEN "l_loaded" ELSE "l_failed"
    /\ env' = TagVariables(env)
    /\ UNCHANGED <<models, reser, tree, tout, call, mode>>

LNext == Load

SpecLoad == LInit /\ [][LNext]_vars

\* C18 (as claimed): from_hs3 does not modify the envelope passed to it:
\* after the call, whether it returned or raised, the caller's envelope is
\* what it was before the call.
C18_EnvelopeUnchangedByLoad ==
    pc \in {"l_loaded", "l_failed"} => env = tree

\* The identities of all the dicts of a value.
RECURSIVE AllCells(_)
AllCells(cells) ==
    {cells.id} \cup UNION {AllCells(cells.kids[key]) : key \in DOMAIN cells.kids}

\* The tag from_hs3 looks an entry up by: pdfs entries carry theirs, the tag
\* of a variables entry is inferred from its fields.
TagOfObject(obj) == IF "kind" \in DOMAIN obj THEN obj.kind ELSE obj.type

\* C19: a from_hs3 that returns gives pdfs and variables with exactly the
\* keys of the envelope passed, each holding the object reconstructed from
\* that entry, and a metadata equal to the envelope's that shares no dict
\* with it at any depth.
C19_LoadResultShape ==
    pc = "l_loaded" =>
        /\ DOMAIN loaded.pdfs = DOMAIN tree.pdfs.m
        /\ DOMAIN loaded.variables = DOMAIN tree.variables.m
        /\ \A name \in DOMAIN loaded.pdfs :
              /\ loaded.pdfs[name].name = tree.pdfs.m[name].m["name"].s
              /\ TagOfObject(loaded.pdfs[name]) = tree.pdfs.m[name].m["type"].s
        /\ \A name \in DOMAIN loaded.variables :
              /\ loaded.variables[name].name = tree.variables.m[name].m["name"].s
              /\ TagOfObject(loaded.variables[name]) = InferTag(tree.variables.m[name])
        /\ loaded.metadata = tree.metadata
        /\ AllCells(loaded.metadata_cells) \cap AllCells(CallerMetadataCells(tree)) = {}

\* A load of two models returned, and its metadata has nested dicts.
C19_Witness ==
    /\ pc = "l_loaded"
    /\ Cardinality(DOMAIN loaded.pdfs) = 2
    /\ Cardinality(AllCells(loaded.metadata_cells)) > 1

\* The tags stored in the entries of a section of the envelope passed.
StoredTags(section) == LookedUp(section)

\* The tags from_hs3 gives the entries of the variables section.
InferredTags(section) == {InferTag(section.m[name]) : name \in DOMAIN section.m}

\* C20 (as claimed): from_hs3 on an envelope with a pdfs or variables entry
\* whose tag has no registered representation ends in an error and returns
\* no result.
C20_UnknownTagRejected ==
    (/\ pc \in {"l_loaded", "l_failed"}
     /\ ~(StoredTags(tree.pdfs) \cup StoredTags(tree.variables) \subseteq DOMAIN reg.type_repr))
        => (pc = "l_failed" /\ loaded = LoadError)

\* C20 (amended): from_hs3 ends in an error and returns no result when a
\* pdfs entry carries a tag that has no registered representation, or when
\* the tag from_hs3 infers for a variables entry from its fields has none;
\* a tag stored in a variables entry is overwritten and never looked up.
C20_UnknownLookedUpTagRejected ==
    (/\ pc \in {"l_loaded", "l_failed"}
     /\ ~(StoredTags(tree.pdfs) \cup InferredTags(tree.variables) \subseteq DOMAIN reg.type_repr))
        => (pc = "l_failed" /\ loaded = LoadError)

\* A load that failed on a pdfs entry with an unknown tag, the tags of the
\* variables entries being registered.
C20_Witness ==
    /\ pc = "l_failed"
    /\ "Bogus" \in StoredTags(tree.pdfs)
    /\ InferredTags(tree.variables) \subseteq DOMAIN reg.type_repr

----------------------------------------------------------------------------
(* Category assignment, checked under SpecReg. *)

\* The category collections, by the capability each is for, in the order
\* the capabilities are tested.
Capabilities == <<"pdf", "param", "data", "constraint">>

Collection(types, cap) ==
    CASE cap = "pdf" -> types._pdf_repr
      [] cap = "param" -> types._param_repr
      [] cap = "data" -> types._data_repr
      [] cap = "constraint" -> types._constraint_repr

\* The collections that the last register call appended its representation to.
GrownBy(before, after, repr) ==
    {i \in 1..Len(Capabilities) :
        Collection(after, Capabilities[i]) = Append(Collection(before, Capabilities[i]), repr)}

\* The collections that the last register call left as they were.
KeptBy(before, after) ==
    {i \in 1..Len(Capabilities) :
        Collection(after, Capabilities[i]) = Collection(before, Capabilities[i])}

\* The first capability in the order that the class implements.
FirstCapability(cls) ==
    CHOOSE i \in 1..Len(Capabilities) :
        /\ Capabilities[i] \in Interfaces(cls)
        /\ \A j \in 1..(i - 1) : Capabilities[j] \notin Interfaces(cls)

\* C21 (as claimed): every successful register call appends the
\* representation to exactly one category collection, the one of the first
\* capability of its domain class in the order model, parameter, data,
\* constraint, and leaves the other collections alone.
C21_OneCategoryForEvery ==
    (call.op = "register" /\ call.status = "ok") =>
        /\ Interfaces(call.repr.impl) # {}
        /\ GrownBy(call.before.types, reg.types, call.repr) = {FirstCapability(call.repr.impl)}
        /\ KeptBy(call.before.types, reg.types)
              = (1..Len(Capabilities)) \ {FirstCapability(call.repr.impl)}

\* C21 (amended): a successful register call for a domain class that
\* implements at least one of the four capabilities appends the
\* representation to exactly one category collection, the one of the first
\* capability in the order model, parameter, data, constraint; for a class
\* that implements none of them it changes no collection.
C21_OneCategoryForCapable ==
    (call.op = "register" /\ call.status = "ok") =>
        IF Interfaces(call.repr.impl) # {}
        THEN /\ GrownBy(call.before.types, reg.types, call.repr)
                    = {FirstCapability(call.repr.impl)}
             /\ KeptBy(call.before.types, reg.types)
                    = (1..Len(Capabilities)) \ {FirstCapability(call.repr.impl)}
        ELSE reg.types = call.before.types

\* A class that is both a model and a parameter was registered.
C21_Witness ==
    /\ call.op = "register"
    /\ call.status = "ok"
    /\ Cardinality(Interfaces(call.repr.impl)) > 1
    /\ Len(reg.types._pdf_repr) = Len(call.before.types._pdf_repr) + 1

----------------------------------------------------------------------------
(* replace_matching as a rewriting of nested structures: one pass with each *)
(* table the serializer and its tests use, and the two passes of            *)
(* post_serialize in either order.                                          *)

\* The structure with its lists turned into tuples.
RECURSIVE AsTuples(_)
AsTuples(v) ==
    IF IsMap(v) THEN Map([key \in DOMAIN v.m |-> AsTuples(v.m[key])])
    ELSE IF IsLst(v) THEN Lst("tuple", [i \in 1..Len(v.l) |-> AsTuples(v.l[i])])
    ELSE v

\* The mappings used inside the sequences that are rewritten: parameters
\* with a plain value.
PlainListCands ==
    {c \in ListCands : "value_fn" \notin DOMAIN c.m /\ "floating" \notin DOMAIN c.m}

\* The structures that are rewritten: single mappings, a model with a field
\* and a sequence, a model with a mapping nested in a mapping.
IsRewriteTree(t) ==
    \/ t \in Cands
    \/ \E c1 \in ListCands, cs \in SeqsUpTo(PlainListCands, MaxList) : t = PdfsOf(c1, cs)
    \/ \E c1 \in SmallCands, c2 \in SmallCands :
          t = Map("Gauss" :> Map("type" :> Str("Gauss") @@ "mu" :> NestedIn(c1, c2)))

\* env is a structure as the representations give it, tree is that
\* structure, the same with tuples, or its collapsed form (what a load reads).
WInit ==
    /\ pc = "w_start"
    /\ IsRewriteTree(env)
    /\ \/ tree = env
       \/ tree = AsTuples(env)
       \/ tree = replace_matching(env, TestForwardTable)
    /\ tout = NoneV
    /\ models = <<>>
    /\ loaded = NoneV
    /\ reser = NoneV
    /\ reg = ImportedRegistry
    /\ call = NoCall
    /\ mode = NoMode

\* The tables a pass is made with: the two of post_serialize, the one of
\* test_replace_matching and the backward table of pre_deserialize.
RewriteTables(source) ==
    {ForwardTable1, ForwardTable2, TestForwardTable, BackwardTable(TreeVariables(source))}

\* replace_matching(tree, table)
Rewrite ==
    /\ pc = "w_start"
    /\ \E table \in RewriteTables(env) :
          tout' = [table |-> table, out |-> replace_matching(tree, table)]
    /\ pc' = "rewritten"
    /\ UNCHANGED <<models, env, loaded, reser, tree, reg, call, mode>>

\* The two passes of post_serialize, in the order of the code and in the
\* opposite order.
BothOrders ==
    /\ pc = "w_start"
    /\ tout' = [first_second |-> replace_matching(replace_matching(tree, ForwardTable1), ForwardTable2),
                second_first |-> replace_matching(replace_matching(tree, ForwardTable2), ForwardTable1)]
    /\ pc' = "ordered"
    /\ UNCHANGED <<models, env, loaded, reser, tree, reg, call, mode>>

WNext == Rewrite \/ BothOrders

SpecRewrite == WInit /\ [][WNext]_vars

\* The node is replaced by a pass with the table.
Matches(node, table) == elements_match(node, table).found

\* Every node that is reached without passing through a matching node and
\* that matches has replacement(node) at its place in the result.
RECURSIVE StopsAtMatches(_, _, _)
StopsAtMatches(in, out, table) ==
    IF Matches(in, table) THEN out = elements_match(in, table).new
    ELSE IF IsMap(in) /\ IsMap(out)
    THEN \A key \in DOMAIN in.m \cap DOMAIN out.m : StopsAtMatches(in.m[key], out.m[key], table)
    ELSE IF IsLst(in) /\ IsLst(out)
    THEN \A i \in 1..Len(in.l) : i <= Len(out.l) => StopsAtMatches(in.l[i], out.l[i], table)
    ELSE TRUE

\* C22: replace_matching tests a node before its children, and where a node
\* matches the result holds replacement(node) as it is: the children of the
\* node and the replacement are not rewritten in that pass.
C22_PreOrderStopsAtMatch ==
    pc = "rewritten" => StopsAtMatches(tree, tout.out, tout.table)

\* A matching node nested in a matching node that the replacement keeps.
C22_Witness ==
    /\ pc = "rewritten"
    /\ \E n \in Nodes(tree) :
          /\ Matches(n, tout.table)
          /\ elements_match(n, tout.table).new = n
          /\ \E inner \in Nodes(n) \ {n} : Matches(inner, tout.table)
          /\ n \in Nodes(tout.out)

\* Every node that is reached without passing through a matching node and
\* does not match keeps its shape: a mapping its keys, a sequence its type
\* and length, anything else its value.
RECURSIVE KeepsStructure(_, _, _)
KeepsStructure(in, out, table) ==
    IF Matches(in, table) THEN TRUE
    ELSE IF IsMap(in)
    THEN /\ IsMap(out)
         /\ DOMAIN out.m = DOMAIN in.m
         /\ \A key \in DOMAIN in.m : KeepsStructure(in.m[key], out.m[key], table)
    ELSE IF IsLst(in)
    THEN /\ IsLst(out)
         /\ out.t = in.t
         /\ Len(out.l) = Len(in.l)
         /\ \A i \in 1..Len(in.l) : KeepsStructure(in.l[i], out.l[i], table)
    ELSE out = in

C28_CollapsePassesCommute ==
    pc = "ordered" => tout.first_second = tout.second_first

\* A node that the name/min/max pattern matches and the replacement keeps,
\* with a constant parameter nested in it that only the other pass replaces.
C28_Witness ==
    /\ pc = "ordered"
    /\ \E n \in Nodes(tree) :
          /\ Matches(n, ForwardTable1) /\ ~Matches(n, ForwardTable2)
          /\ "value_fn" \in DOMAIN n.m
          /\ \E inner \in Nodes(n) \ {n} :
                Matches(inner, ForwardTable2) /\ ~Matches(inner, ForwardTable1)
    /\ tout.first_second # tree

----------------------------------------------------------------------------
(* Tag inference, checked under SpecLoad. *)

\* The tag the rule of the load gives an entry: a value with floating False
\* makes a constant, a value otherwise a parameter, a value function without
\* a value a derived parameter, anything else a space.
RuleTag(entry) ==
    IF Has(entry, "value") /\ Has(entry, "floating") /\ entry.m["floating"] = Bool(FALSE)
        THEN "ConstantParameter"
    ELSE IF Has(entry, "value") THEN "Parameter"
    ELSE IF Has(entry, "value_fn") THEN "ComposedParameter"
    ELSE "Space"

\* The names a field of a pdfs entry refers to variables by, with the place
\* of each in the field.
References(field, variables) ==
    IF IsStr(field) /\ field.s \in DOMAIN variables.m THEN {<<0, field.s>>}
    ELSE IF IsLst(field)
    THEN {<<i, field.l[i].s>> : i \in {x \in 1..Len(field.l) :
                                        IsStr(field.l[x]) /\ field.l[x].s \in DOMAIN variables.m}}
    ELSE {}

\* The object a load built at a place of a field.
BuiltAt(fv, i) == IF i = 0 THEN fv.p ELSE fv.ps[i]

\* C24: from_hs3 gives every variables entry the tag of the rule before
\* anything else is done with the envelope, so the tags are there also when
\* the load fails later, and the objects built from the re-inlined
\* references in pdfs are of the kind of the inferred tag.
C24_TagInference ==
    /\ pc \in {"l_loaded", "l_failed"} =>
          \A name \in DOMAIN tree.variables.m :
              /\ Has(env.variables.m[name], "type")
              /\ env.variables.m[name].m["type"] = Str(RuleTag(tree.variables.m[name]))
    /\ pc = "l_loaded" =>
          \A name \in DOMAIN loaded.pdfs :
              /\ \A key \in DOMAIN loaded.pdfs[name].fields :
                    \A ref \in References(tree.pdfs.m[name].m[key], tree.variables) :
                        BuiltAt(loaded.pdfs[name].fields[key], ref[1]).kind
                            = RuleTag(tree.variables.m[ref[2]])
              /\ \A ref \in References(tree.pdfs.m[name].m["x"], tree.variables) :
                    loaded.pdfs[name].space.kind = RuleTag(tree.variables.m[ref[2]])

\* A load that returned for an envelope with a constant, parameters and a
\* space in variables, one of them without a floating flag.
C24_Witness ==
    /\ pc = "l_loaded"
    /\ {RuleTag(tree.variables.m[name]) : name \in DOMAIN tree.variables.m}
          = {"ConstantParameter", "Parameter", "Space"}
    /\ \E name \in DOMAIN tree.variables.m :
          Has(tree.variables.m[name], "value") /\ ~Has(tree.variables.m[name], "floating")

----------------------------------------------------------------------------
(* Serializing and loading models whose parameters are floating, fixed,     *)
(* constant or derived.                                                     *)

Pfixed == FixedParameter("mu", -1, 1)

\* A Gauss, a Gauss whose mu is held fixed, a Gauss with a constant width
\* and a polynomial with a derived, a constant and a floating coefficient.
TagModels ==
    { Model("Gauss", "Gauss", ("mu" :> One(Pmu)) @@ ("sigma" :> One(Psigma)), ObsSpace),
      Model("Gauss", "Fixed", ("mu" :> One(Pfixed)) @@ ("sigma" :> One(Psigma)), ObsSpace),
      Model("Gauss", "Const", ("mu" :> One(Pmu)) @@ ("sigma" :> One(Cc)), ObsSpace),
      Model("Legendre", "Legendre", ("coeffs" :> Many(<<Comp, Cc, Psigma>>)), ObsSpace) }

TInit ==
    /\ pc = "start"
    /\ \E n \in 1..MaxModels : models \in [1..n -> TagModels]
    /\ env = NoneV
    /\ loaded = NoneV
    /\ reser = NoneV
    /\ tree = NoneV
    /\ tout = NoneV
    /\ reg = ImportedRegistry
    /\ call = NoCall
    /\ mode = NoMode

SpecTags == TInit /\ [][Next]_vars

\* The representations to_hs3 takes the type off: those of the parameters
\* that are not derived and of the spaces of the models.
StrippedReprs(pdfs) ==
    UNION {{ParamRepr(GetParams(pdfs[i])[j]) :
                j \in {x \in 1..Len(GetParams(pdfs[i])) :
                          GetParams(pdfs[i])[x].kind # "ComposedParameter"}}
           \cup {SpaceRepr(pdfs[i].space)} : i \in 1..Len(pdfs)}

\* C27 (as claimed): the tag from_hs3 gives an entry of variables is the tag
\* to_hs3 deleted from the representation it wrote there.
C27_InferenceInvertsStripping ==
    pc \in {"loaded", "load_failed"} =>
        \A name \in DOMAIN env.variables.m :
            \A repr \in StrippedReprs(models) :
                DelType(repr) = DelType(env.variables.m[name])
                    => env.variables.m[name].m["type"] = repr.m["type"]

----------------------------------------------------------------------------
(* Failed and late register calls. *)

\* C25 (as claimed), under SpecReg: a register call that fails, for a class
\* that is not serializable, for a class that is registered or for a tag
\* that is taken, leaves both lookup maps, the category collections and the
\* tags stamped on the domain classes as they were.
C25_FailedRegisterChangesNothing ==
    (call.op = "register" /\ call.status # "ok") =>
        /\ reg.constructor_repr = call.before.constructor_repr
        /\ reg.type_repr = call.before.type_repr
        /\ reg.types = call.before.types
        /\ reg.hs3_type = call.before.hs3_type

\* C26 (as claimed), under SpecFacade: at every to_hs3 or from_hs3 call each
\* representation that is registered has been rebuilt, also one that was
\* registered after the registry was finalized.
C26_LateRegistrationResolved ==
    call.op \in {"to_hs3", "from_hs3"} =>
        \A repr \in ValuesOf(reg.type_repr) :
            repr \in DOMAIN reg.rebuilt /\ reg.rebuilt[repr] >= 1

----------------------------------------------------------------------------
(* Serializer.deserializing(): blocks are entered inside one another, left, *)
(* or ended by an exception raised in the body; a block is plain or stands  *)
(* in a try statement of the caller that catches what leaves it.            *)

\* The deepest nesting of deserializing() blocks.
MaxBlocks == 5

BlockKinds == {"plain", "guarded"}

\* _deserializing = False; no block is active.
NoBlocks == [_deserializing |-> FALSE, blocks |-> <<>>, raising |-> FALSE]

\* cls._deserializing = True; yield
EnterDeserializing(m, kind) ==
    [m EXCEPT !._deserializing = TRUE, !.blocks = Append(@, kind)]

\* The body ended: the generator goes on after the yield,
\* cls._deserializing = False
ExitDeserializing(m) ==
    [m EXCEPT !._deserializing = FALSE, !.blocks = SubSeq(@, 1, Len(@) - 1)]

\* The body raised: the exception is thrown into the generator at the
\* yield, which has no try around it, and the line after it never runs.
ThrowIntoDeserializing(m) ==
    [m EXCEPT !.blocks = SubSeq(@, 1, Len(@) - 1),
              !.raising = (m.blocks[Len(m.blocks)] = "plain")]

DInit ==
    /\ pc = "d_run"
    /\ mode = NoBlocks
    /\ call = NoCall
    /\ reg = ImportedRegistry
    /\ models = <<>>
    /\ env = NoneV
    /\ loaded = NoneV
    /\ reser = NoneV
    /\ tree = NoneV
    /\ tout = NoneV

\* with Serializer.deserializing(): ...
EnterBlock ==
    /\ ~mode.raising
    /\ Len(mode.blocks) < MaxBlocks
    /\ \E kind \in BlockKinds : mode' = EnterDeserializing(mode, kind)
    /\ UNCHANGED <<pc, models, env, loaded, reser, tree, tout, reg, call>>

\* The body of the innermost block runs to its end.
LeaveBlock ==
    /\ ~mode.raising
    /\ Len(mode.blocks) > 0
    /\ mode' = ExitDeserializing(mode)
    /\ UNCHANGED <<pc, models, env, loaded, reser, tree, tout, reg, call>>

\* Something in the body of the innermost block raises.
RaiseInBody ==
    /\ ~mode.raising
    /\ Len(mode.blocks) > 0
    /\ mode' = [mode EXCEPT !.raising = TRUE]
    /\ UNCHANGED <<pc, models, env, loaded, reser, tree, tout, reg, call>>

\* The exception leaves the innermost block.
Unwind ==
    /\ mode.raising
    /\ Len(mode.blocks) > 0
    /\ mode' = ThrowIntoDeserializing(mode)
    /\ UNCHANGED <<pc, models, env, loaded, reser, tree, tout, reg, call>>

\* The exception has left every block and is caught by the caller.
CatchAtTop ==
    /\ mode.raising
    /\ Len(mode.blocks) = 0
    /\ mode' = [mode EXCEPT !.raising = FALSE]
    /\ UNCHANGED <<pc, models, env, loaded, reser, tree, tout, reg, call>>

DNext == EnterBlock \/ LeaveBlock \/ RaiseInBody \/ Unwind \/ CatchAtTop

SpecDeser == DInit /\ [][DNext]_vars

\* C29 (as claimed): _deserializing is True exactly while a deserializing()
\* block is active: False once every block has been left, also by an
\* exception, and True inside an outer block after an inner one has ended.
C29_FlagTracksBlocks ==
    mode._deserializing = (Len(mode.blocks) > 0)

====
